---- MODULE Spec2Model ----
(***************************************************************************)
(* Model of the Signature value type of src.ts/crypto/signature.ts: the    *)
(* private store of each instance, the r/s/v setters, clone, freeze,       *)
(* toJSON, the serialized views and the multi-format constructor from.     *)
(*                                                                         *)
(* A JavaScript string is a sequence of character codes:                   *)
(*   0..15  the characters 0-9 a-f      16..21 the characters A-F          *)
(*   22     the character g (not hex)   23     the character x             *)
(* so "0x" is <<0, 23>>.  A Uint8Array is a sequence of numbers 0..255.    *)
(***************************************************************************)
EXTENDS Integers, Sequences, FiniteSets, TLC

\* ---------------------------------------------------------------- bounds
\* number of Signature instances alive at once
MaxInst == 2

\* ------------------------------------------------------------- constants
\* byte width of r, s and yParityAndS
HashLen == 32
BN_35 == 35

CharX == 23
CharG == 22
Prefix == <<0, CharX>>

\* ------------------------------------------------------ utils (imported)
IsHexChar(c) == c \in 0..21

HexVal(c) == IF c < 16 THEN c ELSE c - 6

\* value.match(/^0x[0-9A-Fa-f]*$/)
MatchesHex(str) ==
    /\ Len(str) >= 2
    /\ str[1] = 0
    /\ str[2] = CharX
    /\ \A i \in 3..Len(str) : IsHexChar(str[i])

\* isHexString(value, length) with a numeric length
isHexString(str, length) == MatchesHex(str) /\ Len(str) = 2 + 2 * length

\* a BytesLike value: a string or a Uint8Array
Str(d) == [t |-> "str", d |-> d]
U8(d) == [t |-> "u8", d |-> d]

\* getBytes accepts a Uint8Array or a hex string of whole bytes
IsBytesLike(value) ==
    \/ value.t = "u8"
    \/ value.t = "str" /\ MatchesHex(value.d) /\ Len(value.d) % 2 = 0

getBytes(value) ==
    IF value.t = "u8" THEN value.d
    ELSE [i \in 1..((Len(value.d) - 2) \div 2) |->
             16 * HexVal(value.d[2 * i + 1]) + HexVal(value.d[2 * i + 2])]

\* hexlify writes the lower-case digits "0123456789abcdef"
hexlifyBytes(bytes) ==
    Prefix \o [i \in 1..(2 * Len(bytes)) |->
                 IF i % 2 = 1 THEN bytes[(i + 1) \div 2] \div 16
                 ELSE bytes[i \div 2] % 16]

hexlify(value) == hexlifyBytes(getBytes(value))

dataLength(value) == Len(getBytes(value))

\* concat of hex strings: "0x" + the hexlified bodies
RECURSIVE joinBodies(_)
joinBodies(strs) ==
    IF strs = <<>> THEN <<>>
    ELSE LET h == hexlify(Str(Head(strs)))
         IN  SubSeq(h, 3, Len(h)) \o joinBodies(Tail(strs))

concat(strs) == Prefix \o joinBodies(strs)

\* bigint.toString(): decimal digits, most significant first
RECURSIVE toString(_)
toString(n) == IF n < 10 THEN <<n>> ELSE toString(n \div 10) \o <<n % 10>>

\* (b & 0x80), b &= 0x7f, b |= 0x80 on one byte
TopBit(b) == b >= 128
ClearTop(b) == b % 128
SetTop(b) == (b % 128) + 128

ZeroHash == hexlifyBytes([i \in 1..HashLen |-> 0])

\* ------------------------------------------------------ Signature values
\* null is the empty sequence, a present value a one-element sequence
Null == <<>>

\* the private store #props of one instance
NoProps == [r |-> <<>>, s |-> <<>>, v |-> 0, networkV |-> Null]

\* new Signature(_guard, r, s, v)
Signature(r, s, v) == [r |-> r, s |-> s, v |-> v, networkV |-> Null]

\* get yParity
yParity(p) == IF p.v = 27 THEN 0 ELSE 1

\* get yParityAndS
yParityAndS(p) ==
    LET bytes == getBytes(Str(p.s))
    IN  hexlifyBytes(IF yParity(p) # 0
                     THEN [bytes EXCEPT ![1] = SetTop(@)]
                     ELSE bytes)

\* get compactSerialized
compactSerialized(p) == concat(<<p.r, yParityAndS(p)>>)

\* get serialized; "0x1c" and "0x1b"
serialized(p) ==
    concat(<<p.r, p.s,
             IF yParity(p) # 0 THEN <<0, CharX, 1, 12>> ELSE <<0, CharX, 1, 11>>>>)

\* if (x) on a bigint-or-null: null and 0n are falsy
Truthy(nv) == nv # Null /\ nv[1] # 0

\* clone() that forgets the chain binding
clone_dropNetworkV(p) == Signature(p.r, p.s, p.v)

\* clone()
clone(p) ==
    LET c == Signature(p.r, p.s, p.v)
    IN  IF Truthy(p.networkV) THEN [c EXCEPT !.networkV = p.networkV] ELSE c

\* freeze() that leaves the store as it was
freeze_noop(isFrozen) == isFrozen

\* Object.freeze(this.#props): the new frozen flag of the store
freeze(isFrozen) == TRUE

\* a field of an input record: key absent, key present holding undefined,
\* or key present holding the value x
Absent == [k |-> "absent", x |-> <<>>]
Undef == [k |-> "undef", x |-> <<>>]
Val(x) == [k |-> "val", x |-> x]
\* f != null
Has(f) == f.k = "val"
\* "f" in sig
In(f) == f.k # "absent"

\* toJSON(); as an input of from only r, s, v, yParity, yParityAndS are read
toJSON(p) ==
    [type |-> "signature",
     networkV |-> IF p.networkV # Null THEN Val(toString(p.networkV[1])) ELSE Undef,
     r |-> Val(p.r), s |-> Val(p.s), v |-> Val(p.v),
     yParity |-> Absent, yParityAndS |-> Absent]

\* getNormalizedV with the parity convention reversed
getNormalizedV_even27(v) ==
    IF v = 0 THEN 27
    ELSE IF v = 1 THEN 28
    ELSE IF v % 2 = 1 THEN 28 ELSE 27

\* getNormalizedV(v)
getNormalizedV(v) ==
    IF v = 0 THEN 27
    ELSE IF v = 1 THEN 28
    ELSE IF v % 2 = 1 THEN 27 ELSE 28

\* ------------------------------------------------------- Signature.from
\* the outcome of a call: the error message ("none" when it returns) and
\* the store of the instance it returns
Ok(p) == [err |-> "none", p |-> p]
Fail(msg) == [err |-> msg, p |-> NoProps]

\* from(undefined) and from(null)
fromNull == Ok(Signature(ZeroHash, ZeroHash, 27))

\* from(sig) for a string
fromString(str) ==
    IF ~IsBytesLike(Str(str)) THEN Fail("invalid BytesLike value")
    ELSE
    LET bytes == getBytes(Str(str))
    IN  IF Len(bytes) = 64
        THEN LET r == hexlifyBytes(SubSeq(bytes, 1, 32))
                 s == SubSeq(bytes, 33, 64)
                 v == IF TopBit(s[1]) THEN 28 ELSE 27
             IN  Ok(Signature(r, hexlifyBytes([s EXCEPT ![1] = ClearTop(@)]), v))
        ELSE IF Len(bytes) = 65
        THEN LET r == hexlifyBytes(SubSeq(bytes, 1, 32))
                 s == SubSeq(bytes, 33, 64)
             IN  IF TopBit(s[1]) THEN Fail("non-canonical s")
                 ELSE Ok(Signature(r, hexlifyBytes(s), getNormalizedV(bytes[65])))
        ELSE Fail("invlaid raw signature length")

\* from(sig) for a Signature instance
fromInstance(p) == clone(p)

\* Get r
resolveR(sig) ==
    IF ~Has(sig.r) THEN [err |-> "missing r", r |-> <<>>]
    ELSE IF ~isHexString(sig.r.x, HashLen) THEN [err |-> "invalid r", r |-> <<>>]
    ELSE [err |-> "none", r |-> sig.r.x]

\* Get s, without clearing the parity bit of yParityAndS
resolveS_keepTop(sig) ==
    IF Has(sig.s)
    THEN IF ~isHexString(sig.s.x, HashLen) THEN [err |-> "invalid s", s |-> <<>>]
         ELSE [err |-> "none", s |-> sig.s.x]
    ELSE IF Has(sig.yParityAndS)
    THEN IF ~isHexString(sig.yParityAndS.x, HashLen)
         THEN [err |-> "invalid yParityAndS", s |-> <<>>]
         ELSE [err |-> "none", s |-> hexlify(Str(sig.yParityAndS.x))]
    ELSE [err |-> "missing s", s |-> <<>>]

\* Get s; by any means necessary
resolveS(sig) ==
    IF Has(sig.s)
    THEN IF ~isHexString(sig.s.x, HashLen) THEN [err |-> "invalid s", s |-> <<>>]
         ELSE [err |-> "none", s |-> sig.s.x]
    ELSE IF Has(sig.yParityAndS)
    THEN IF ~isHexString(sig.yParityAndS.x, HashLen)
         THEN [err |-> "invalid yParityAndS", s |-> <<>>]
         ELSE LET bytes == getBytes(Str(sig.yParityAndS.x))
              IN  [err |-> "none",
                   s |-> hexlifyBytes([bytes EXCEPT ![1] = ClearTop(@)])]
    ELSE [err |-> "missing s", s |-> <<>>]

\* Get v; by any means necessary
resolveV(sig) ==
    IF Has(sig.v)
    THEN [err |-> "none",
          networkV |-> IF sig.v.x >= BN_35 THEN <<sig.v.x>> ELSE Null,
          v |-> getNormalizedV(sig.v.x)]
    ELSE IF Has(sig.yParityAndS)
    THEN IF ~isHexString(sig.yParityAndS.x, HashLen)
         THEN [err |-> "invalid yParityAndS", networkV |-> Null, v |-> 0]
         ELSE [err |-> "none", networkV |-> Null,
               v |-> IF TopBit(getBytes(Str(sig.yParityAndS.x))[1]) THEN 28 ELSE 27]
    ELSE IF Has(sig.yParity)
    THEN IF sig.yParity.x = 0 THEN [err |-> "none", networkV |-> Null, v |-> 27]
         ELSE IF sig.yParity.x = 1 THEN [err |-> "none", networkV |-> Null, v |-> 28]
         ELSE [err |-> "invalid yParity", networkV |-> Null, v |-> 0]
    ELSE [err |-> "missing v", networkV |-> Null, v |-> 0]

\* If multiple of v, yParity, yParityAndS we given, check they match
checkMatch(sig, result) ==
    IF In(sig.yParity) /\ (~Has(sig.yParity) \/ sig.yParity.x # yParity(result))
    THEN "yParity mismatch"
    ELSE IF In(sig.yParityAndS)
            /\ (~Has(sig.yParityAndS) \/ sig.yParityAndS.x # yParityAndS(result))
    THEN "yParityAndS mismatch"
    ELSE "none"

\* from(sig) for a structured record
fromRecord(sig) ==
    LET rr == resolveR(sig)
        rs == resolveS(sig)
        rv == resolveV(sig)
    IN  IF rr.err # "none" THEN Fail(rr.err)
        ELSE IF rs.err # "none" THEN Fail(rs.err)
        ELSE IF TopBit(getBytes(Str(rs.s))[1]) THEN Fail("non-canonical s")
        ELSE IF rv.err # "none" THEN Fail(rv.err)
        ELSE LET made == Signature(rr.r, rs.s, rv.v)
                 result == IF Truthy(rv.networkV)
                           THEN [made EXCEPT !.networkV = rv.networkV]
                           ELSE made
                 m == checkMatch(sig, result)
             IN  IF m # "none" THEN Fail(m) ELSE Ok(result)

\* ---------------------------------------------------------------- setters
\* setStore refuses to write to a frozen store
FrozenError == "frozen object is immutable"

setStore(p, isFrozen, key, value) ==
    IF isFrozen THEN [err |-> FrozenError, p |-> p]
    ELSE [err |-> "none", p |-> [p EXCEPT ![key] = value]]

\* set r(value)
set_r(p, isFrozen, value) ==
    IF ~IsBytesLike(value) THEN [err |-> "invalid BytesLike value", p |-> p]
    ELSE IF dataLength(value) # 32 THEN [err |-> "invalid r", p |-> p]
    ELSE setStore(p, isFrozen, "r", hexlify(value))

\* set s without the canonicality check
set_s_anyTop(p, isFrozen, value) ==
    IF ~IsBytesLike(value) THEN [err |-> "invalid BytesLike value", p |-> p]
    ELSE IF dataLength(value) # 32 THEN [err |-> "invalid r", p |-> p]
    ELSE setStore(p, isFrozen, "s", hexlify(value))

\* set s(value); the length check reports "invalid r" as well
set_s(p, isFrozen, value) ==
    IF ~IsBytesLike(value) THEN [err |-> "invalid BytesLike value", p |-> p]
    ELSE IF dataLength(value) # 32 THEN [err |-> "invalid r", p |-> p]
    ELSE IF TopBit(getBytes(value)[1]) THEN [err |-> "non-canonical s", p |-> p]
    ELSE setStore(p, isFrozen, "s", hexlify(value))

\* set v that normalizes its argument instead of rejecting it
set_v_coerce(p, isFrozen, value) ==
    setStore(p, isFrozen, "v", getNormalizedV(value))

\* set v(value)
set_v(p, isFrozen, value) ==
    IF ~(value = 27 \/ value = 28) THEN [err |-> "invalid v", p |-> p]
    ELSE setStore(p, isFrozen, "v", value)

\* ------------------------------------------------------------ test data
\* a byte string of n bytes: first byte f, last byte l, zero between
Pattern(n, f, l) == [i \in 1..n |-> IF i = 1 THEN f ELSE IF i = n THEN l ELSE 0]

\* the same hex string written with the digits A-F
Upper(str) == [i \in 1..Len(str) |->
                 IF i > 2 /\ str[i] \in 10..15 THEN str[i] + 6 ELSE str[i]]

RBytes == Pattern(HashLen, 26, 1)
SBytes == Pattern(HashLen, 42, 2)
SHighBytes == Pattern(HashLen, 170, 2)
RLower == hexlifyBytes(RBytes)
RUpper == Upper(RLower)
SLower == hexlifyBytes(SBytes)
SUpper == Upper(SLower)
SHighLower == hexlifyBytes(SHighBytes)
SHighUpper == Upper(SHighLower)
Short == hexlifyBytes(Pattern(HashLen - 1, 42, 2))
NotHex == Prefix \o <<CharG, 1>>

Rec(r, s, v, yp, yps) ==
    [type |-> "record", networkV |-> Absent,
     r |-> r, s |-> s, v |-> v, yParity |-> yp, yParityAndS |-> yps]

\* inputs of the instance life cycle
LifeRecords ==
    { Rec(Val(RLower), Val(SLower), Val(37), Absent, Absent),
      Rec(Val(RLower), Absent, Absent, Val(1), Val(SHighLower)),
      Rec(Val(RLower), Val(SHighLower), Val(27), Absent, Absent) }
LifeBlobs ==
    { hexlifyBytes(<<1, 2, 3>>),
      hexlifyBytes(RBytes \o SHighBytes),
      hexlifyBytes(RBytes \o SBytes \o <<1>>) }
RArgs == { Str(RUpper), U8(Pattern(HashLen - 1, 26, 1)), Str(NotHex) }
SArgs == { Str(SUpper), U8(SHighBytes), Str(Short) }
VArgs == { 0, 1, 27, 28, 37 }

\* inputs of the constructor alone
AllRecords ==
    { Rec(r, s, v, yp, yps) :
        r \in { Absent, Val(RLower), Val(RUpper), Val(Short) },
        s \in { Absent, Val(SLower), Val(SUpper), Val(SHighLower), Val(Short) },
        v \in { Absent, Val(0), Val(1), Val(2), Val(26), Val(27),
                 Val(28), Val(34), Val(35), Val(36), Val(37) },
        yp \in { Absent, Undef, Val(0), Val(1), Val(2) },
        yps \in { Absent, Undef, Val(SLower), Val(SHighLower), Val(SUpper),
                   Val(SHighUpper), Val(Short) } }
AllBlobs ==
    { hexlifyBytes(RBytes \o s \o tail) :
        s \in { SBytes, SHighBytes },
        tail \in { <<>>, <<0>>, <<1>>, <<2>>, <<27>>, <<28>>, <<37>>, <<38>>,
                    <<255>>, <<27, 0>> } }
    \cup { Upper(hexlifyBytes(RBytes \o SHighBytes)),
            SubSeq(hexlifyBytes(RBytes \o SBytes), 1, 129),
            NotHex, Short, <<>> }

\* ------------------------------------------------------------------ state
VARIABLES
    sigs,     \* instance -> its store #props, NoProps while not constructed
    frozen,   \* instance -> whether its store is frozen
    last      \* the call that has just completed: op, instance it was made
              \* on, argument, instance it returned, error; Idle between calls

vars == <<sigs, frozen, last>>

Inst == 1..MaxInst
Live(i) == sigs[i] # NoProps
HasFree == \E i \in Inst : ~Live(i)
NewId == CHOOSE i \in Inst : ~Live(i) /\ \A j \in 1..(i - 1) : Live(j)

Call(op, target, arg, res, err) ==
    [op |-> op, target |-> target, arg |-> arg, res |-> res, err |-> err]

Idle == Call("idle", 0, <<>>, 0, "none")

Init ==
    /\ sigs = [i \in Inst |-> NoProps]
    /\ frozen = [i \in Inst |-> FALSE]
    /\ last = Idle

\* the instance a successful constructor call returns takes a free slot
Construct(op, target, arg, out) ==
    /\ IF out.err = "none"
       THEN /\ HasFree
            /\ sigs' = [sigs EXCEPT ![NewId] = out.p]
            /\ frozen' = [frozen EXCEPT ![NewId] = FALSE]
            /\ last' = Call(op, target, arg, NewId, "none")
       ELSE /\ last' = Call(op, target, arg, 0, out.err)
            /\ UNCHANGED <<sigs, frozen>>

FromNull ==
    /\ last = Idle
    /\ Construct("from null", 0, <<>>, fromNull)

FromString(str) ==
    /\ last = Idle
    /\ Construct("from string", 0, str, fromString(str))

FromRecord(sig) ==
    /\ last = Idle
    /\ Construct("from record", 0, sig, fromRecord(sig))

FromInstance(i) ==
    /\ last = Idle
    /\ Live(i)
    /\ Construct("from instance", i, <<>>, Ok(fromInstance(sigs[i])))

Clone(i) ==
    /\ last = Idle
    /\ Live(i)
    /\ Construct("clone", i, <<>>, Ok(clone(sigs[i])))

\* from(x.serialized), from(x.compactSerialized), from(x.toJSON())
FromSerialized(i) ==
    /\ last = Idle
    /\ Live(i)
    /\ Construct("from serialized", i, <<>>, fromString(serialized(sigs[i])))

FromCompact(i) ==
    /\ last = Idle
    /\ Live(i)
    /\ Construct("from compact", i, <<>>,
                 fromString(compactSerialized(sigs[i])))

FromJSON(i) ==
    /\ last = Idle
    /\ Live(i)
    /\ Construct("from json", i, <<>>, fromRecord(toJSON(sigs[i])))

Freeze(i) ==
    /\ last = Idle
    /\ Live(i)
    /\ frozen' = [frozen EXCEPT ![i] = freeze(frozen[i])]
    /\ last' = Call("freeze", i, <<>>, i, "none")
    /\ UNCHANGED sigs

Set(op, i, value, out) ==
    /\ sigs' = [sigs EXCEPT ![i] = out.p]
    /\ last' = Call(op, i, value, 0, out.err)
    /\ UNCHANGED frozen

SetR(i, value) ==
    /\ last = Idle
    /\ Live(i)
    /\ Set("set r", i, value, set_r(sigs[i], frozen[i], value))

SetS(i, value) ==
    /\ last = Idle
    /\ Live(i)
    /\ Set("set s", i, value, set_s(sigs[i], frozen[i], value))

SetV(i, value) ==
    /\ last = Idle
    /\ Live(i)
    /\ Set("set v", i, value, set_v(sigs[i], frozen[i], value))

\* the caller has seen the outcome and moves on to its next call
Return ==
    /\ last # Idle
    /\ last' = Idle
    /\ UNCHANGED <<sigs, frozen>>

Next ==
    \/ Return
    \/ FromNull
    \/ \E str \in LifeBlobs : FromString(str)
    \/ \E sig \in LifeRecords : FromRecord(sig)
    \/ \E i \in Inst : FromInstance(i)
    \/ \E i \in Inst : Clone(i)
    \/ \E i \in Inst : Freeze(i)
    \/ \E i \in Inst, value \in RArgs : SetR(i, value)
    \/ \E i \in Inst, value \in SArgs : SetS(i, value)
    \/ \E i \in Inst, value \in VArgs : SetV(i, value)

Spec == Init /\ [][Next]_vars

\* the constructor alone: one call on each input
Fresh == last = Idle /\ \A i \in Inst : ~Live(i)

NextFrom ==
    \/ Fresh /\ FromNull
    \/ Fresh /\ \E str \in AllBlobs : FromString(str)
    \/ Fresh /\ \E sig \in AllRecords : FromRecord(sig)

SpecFrom == Init /\ [][NextFrom]_vars

\* round trips: an instance built from a record, possibly given another v,
\* is serialized or exported and the outcome handed back to from
NextRound ==
    \/ Return
    \/ Fresh /\ \E sig \in AllRecords : FromRecord(sig)
    \/ \E i \in Inst, value \in VArgs : SetV(i, value)
    \/ \E i \in Inst : FromSerialized(i)
    \/ \E i \in Inst : FromCompact(i)
    \/ \E i \in Inst : FromJSON(i)

SpecRound == Init /\ [][NextRound]_vars

\* ================================================================ claims
Setters == {"set r", "set s", "set v"}
Mismatch == {"yParity mismatch", "yParityAndS mismatch"}
ArgumentErrors ==
    {"invalid r", "non-canonical s", "invalid v", "invalid BytesLike value"}

\* a stored hex string of exactly 32 bytes
Is32Bytes(str) == Len(str) = 2 + 2 * HashLen /\ MatchesHex(str)
\* the first byte of a hex string has its top bit set
HighBit(str) == Len(str) >= 3 /\ MatchesHex(str) /\ HexVal(str[3]) >= 8

\* C1: every live instance has r of exactly 32 bytes, s of exactly 32 bytes
\* with the top bit of its first byte clear, and v equal to 27 or 28.
Thm_C1 ==
    \A i \in Inst :
        Live(i) =>
            /\ Is32Bytes(sigs[i].r)
            /\ Is32Bytes(sigs[i].s)
            /\ ~HighBit(sigs[i].s)
            /\ sigs[i].v \in {27, 28}

Wit_C1 ==
    /\ last.op = "set s"
    /\ last.err = "none"
    /\ sigs[last.target].networkV # Null
    /\ \E j \in Inst : j # last.target /\ Live(j) /\ frozen[j]

\* C2: an instance whose networkV is non-null has v = 27 exactly when its
\* networkV is odd (v is the normalized networkV).
CE_C2 ==
    \A i \in Inst :
        (Live(i) /\ sigs[i].networkV # Null) =>
            (sigs[i].v = 27 <=> sigs[i].networkV[1] % 2 = 1)

\* C4: from(x.serialized) and from(x.compactSerialized) succeed and return
\* an instance with r, s and v identical to x's and networkV null.
CE_C4 ==
    last.op \in {"from serialized", "from compact"} =>
        /\ last.err = "none"
        /\ sigs[last.res].r = sigs[last.target].r
        /\ sigs[last.res].s = sigs[last.target].s
        /\ sigs[last.res].v = sigs[last.target].v
        /\ sigs[last.res].networkV = Null

\* C9: from(x.toJSON()) succeeds and returns an instance with the same r,
\* s, v and networkV as x.
CE_C9 ==
    last.op = "from json" =>
        /\ last.err = "none"
        /\ sigs[last.res].r = sigs[last.target].r
        /\ sigs[last.res].s = sigs[last.target].s
        /\ sigs[last.res].v = sigs[last.target].v
        /\ sigs[last.res].networkV = sigs[last.target].networkV

\* the record a from(record) call was given, and what its fields resolve to
Arg == last.arg
Reached ==
    /\ last.op = "from record"
    /\ resolveR(Arg).err = "none"
    /\ resolveS(Arg).err = "none"
    /\ ~HighBit(resolveS(Arg).s)
Resolved == Reached /\ resolveV(Arg).err = "none"
DerivedYParity == IF resolveV(Arg).v = 27 THEN 0 ELSE 1
DerivedYParityAndS ==
    LET bytes == getBytes(Str(resolveS(Arg).s))
    IN  IF DerivedYParity = 1 THEN [bytes EXCEPT ![1] = SetTop(@)] ELSE bytes
\* the 32-byte value a supplied hex string denotes, <<>> if it denotes none
Denoted(str) == IF IsBytesLike(Str(str)) THEN getBytes(Str(str)) ELSE <<>>
YParityDiffers == Has(Arg.yParity) /\ Arg.yParity.x # DerivedYParity
YParityAndSDiffers ==
    Has(Arg.yParityAndS) /\ Denoted(Arg.yParityAndS.x) # DerivedYParityAndS

\* C3: a record whose supplied yParity or yParityAndS differs from the value
\* derived from the resolved s and v fails with a mismatch error; a record
\* whose supplied redundant fields all agree with the derived values
\* succeeds, and the result's yParity and yParityAndS equal the supplied.
CE_C3 ==
    Resolved =>
        /\ (YParityDiffers \/ YParityAndSDiffers) => last.err \in Mismatch
        /\ ~(YParityDiffers \/ YParityAndSDiffers) =>
              /\ last.err = "none"
              /\ Has(Arg.yParity) => yParity(sigs[last.res]) = Arg.yParity.x
              /\ Has(Arg.yParityAndS) =>
                    Denoted(yParityAndS(sigs[last.res])) = Denoted(Arg.yParityAndS.x)

\* the raw signature a from(string) call was given, as bytes
BlobLen == IF IsBytesLike(Str(Arg)) THEN dataLength(Str(Arg)) ELSE 0 - 1
BlobHighS == HexVal(Arg[2 * HashLen + 3]) >= 8
ExplicitHighS == Has(Arg.s) /\ HighBit(Arg.s.x)
WellFormedR == Has(Arg.r) /\ Is32Bytes(Arg.r.x)

\* C5 as stated: from fails with non-canonical s for every 65-byte blob
\* whose s has its top bit set and for every record whose explicit s has its
\* top bit set; it never fails so for a 64-byte blob or for a record whose
\* s is derived from yParityAndS.
CE_C5 ==
    /\ (last.op = "from string" /\ BlobLen = 65 /\ BlobHighS)
          => last.err = "non-canonical s"
    /\ (last.op = "from record" /\ ExplicitHighS)
          => last.err = "non-canonical s"
    /\ (last.op = "from string" /\ BlobLen = 64)
          => last.err # "non-canonical s"
    /\ (last.op = "from record" /\ ~Has(Arg.s) /\ Has(Arg.yParityAndS))
          => last.err # "non-canonical s"

\* C5 amended: the record case holds for records whose r is a 32-byte hex
\* string and whose explicit s is a 32-byte hex string with its top bit set;
\* the three other cases hold as stated.
Thm_C5 ==
    /\ (last.op = "from string" /\ BlobLen = 65 /\ BlobHighS)
          => (last.err = "non-canonical s" /\ last.res = 0)
    /\ (last.op = "from record" /\ WellFormedR /\ ExplicitHighS
            /\ Is32Bytes(Arg.s.x))
          => (last.err = "non-canonical s" /\ last.res = 0)
    /\ (last.op = "from string" /\ BlobLen = 64)
          => last.err # "non-canonical s"
    /\ (last.op = "from record" /\ ~Has(Arg.s) /\ Has(Arg.yParityAndS))
          => last.err # "non-canonical s"

Wit_C5 ==
    /\ last.op = "from record"
    /\ ~Has(Arg.s)
    /\ Has(Arg.yParityAndS)
    /\ HighBit(Arg.yParityAndS.x)
    /\ last.err = "none"
    /\ sigs[last.res].v = 28

Thm_C6 ==
    /\ [](last.op = "freeze" => frozen[last.target])
    /\ [][\A i \in Inst :
            frozen[i] =>
                /\ frozen'[i]
                /\ sigs'[i] = sigs[i]
                /\ (last' # last /\ last'.op \in Setters /\ last'.target = i)
                      => last'.err # "none"]_vars

Wit_C6 ==
    /\ last.op = "set v"
    /\ last.arg \in {27, 28}
    /\ last.arg # sigs[last.target].v
    /\ frozen[last.target]
    /\ last.err = FrozenError

\* C7: clone() and from(instance) return a new unfrozen instance with the
\* r, s, v and networkV of the original; a later setter call or freeze() on
\* one instance changes neither the fields nor the frozen status of another.
Thm_C7 ==
    /\ [](last.op \in {"clone", "from instance"} =>
            /\ last.err = "none"
            /\ last.res # last.target
            /\ ~frozen[last.res]
            /\ sigs[last.res].r = sigs[last.target].r
            /\ sigs[last.res].s = sigs[last.target].s
            /\ sigs[last.res].v = sigs[last.target].v
            /\ sigs[last.res].networkV = sigs[last.target].networkV)
    /\ [][(last' # last /\ last'.op \in Setters \cup {"freeze"}) =>
            \A j \in Inst \ {last'.target} :
                sigs'[j] = sigs[j] /\ frozen'[j] = frozen[j]]_vars

Wit_C7 ==
    /\ last.op = "clone"
    /\ frozen[last.target]
    /\ ~frozen[last.res]
    /\ sigs[last.res].networkV # Null

\* what the r, s and v setters reject
BadR(value) == ~IsBytesLike(value) \/ Len(getBytes(value)) # 32
BadS(value) == BadR(value) \/ getBytes(value)[1] >= 128
BadV(value) == value \notin {27, 28}

\* C8: a setter given a bad argument (r or s not 32 bytes, s with its top
\* bit set, v other than 27 or 28) raises an argument error and leaves r,
\* s, v and networkV of the instance as they were.
Thm_C8 ==
    [][(/\ last' # last
        /\ \/ last'.op = "set r" /\ BadR(last'.arg)
           \/ last'.op = "set s" /\ BadS(last'.arg)
           \/ last'.op = "set v" /\ BadV(last'.arg))
        => /\ last'.err \in ArgumentErrors
           /\ sigs'[last'.target] = sigs[last'.target]]_vars

Wit_C8 ==
    /\ last.op = "set v"
    /\ last.arg = 37
    /\ last.err = "invalid v"
    /\ sigs[last.target].v = 28
    /\ ~frozen[last.target]

====
